---------------------------- MODULE Spec2Model ----------------------------
(***************************************************************************)
(* Job lifecycle of the meeting transcription service: the submission and  *)
(* status endpoints (src/api/routes.py), the Celery task                   *)
(* process_transcription (src/worker/tasks.py), the pipeline orchestrator  *)
(* with alignment and merging (src/services/pipeline.py), the JSON         *)
(* formatter (src/utils/formatters.py) and the files the worker owns       *)
(* (src/utils/audio.py).                                                   *)
(*                                                                         *)
(* Times are integers: audio durations are pydub's len(audio), an integer  *)
(* number of milliseconds; word and turn bounds are integer time units.    *)
(* The midpoint test start <= (ws + we)/2 <= end is computed on doubled    *)
(* values, which is exact.                                                 *)
(***************************************************************************)
EXTENDS Integers, Sequences, FiniteSets, TLC

\* ----------------------------------------------------------------- bounds

\* Job ids the submission endpoint can hand out (uuid4: each one fresh).
MaxJobs == 1
\* Worker processes that may be lost in mid-task (each loss re-queues the task).
MaxWorkerLost == 1
\* Steps of the clock, each of half the records' time to live.
MaxTicks == 2
\* The latest instant of a word or turn bound, and the longest word and
\* turn lists handed to the alignment and to the merger.
MaxTime == 3
MaxWords == 2
MaxTurns == 2
MaxMergeWords == 3
MaxCues == 3
\* Threads that call the engine services, and unload calls per service.
MaxThreads == 2
MaxUnloads == 1

\* ------------------------------------------------------ program constants

max_upload_size_mb == 500
max_audio_duration_seconds == 3600
MIN_DURATION_MS == 500
result_ttl_hours == 24

max_upload_size_bytes == max_upload_size_mb * 1024 * 1024

\* ------------------------------------------------------------------ data

\* Python's None: in a field that holds a string, and in a field that holds
\* an object, a list or a number.
None == "None"
NoneObj == [none |-> TRUE]

\* A float number of seconds, held as its exact count of milliseconds.
Seconds(ms) == [ms |-> ms]

\* A list in a field that may also hold None.
List(items) == [items |-> items]

JobIds == 1..MaxJobs
\* worker_prefetch_multiplier = 1: the worker process runs one task at a time.
Workers == {"w1"}

PENDING == "pending"
PROCESSING == "processing"
COMPLETED == "completed"
FAILED == "failed"
JobStatus == {PENDING, PROCESSING, COMPLETED, FAILED}

SUPPORTED_FORMATS ==
    {".wav", ".mp3", ".m4a", ".mp4", ".flac", ".ogg", ".webm", ".wma", ".aac"}

\* Word(text, start, end, confidence, speaker); speaker defaults to None.
Word(text, start, end, confidence) ==
    [text |-> text, start |-> start, end |-> end,
     confidence |-> confidence, speaker |-> None]

SpeakerSegment(speaker, start, end) ==
    [speaker |-> speaker, start |-> start, end |-> end]

\* ---------------------------------------------------- alignment engine

RECURSIVE FirstMatchByStart(_, _, _)
\* A faulty search, which tests the word's start and not its midpoint.
\* MidpointDecidesSpeaker must tell it from FirstMatch.
FirstMatchByStart(word, speaker_segments, i) ==
    IF i > Len(speaker_segments) THEN "UNKNOWN"
    ELSE IF /\ speaker_segments[i].start <= word.start
            /\ word.start <= speaker_segments[i].end
         THEN speaker_segments[i].speaker
         ELSE FirstMatchByStart(word, speaker_segments, i + 1)

RECURSIVE LastMatch(_, _, _)
\* A faulty search, which lets a later turn of the list win over an
\* earlier one. FirstTurnInListOrderWins must tell it from FirstMatch.
LastMatch(word, speaker_segments, i) ==
    IF i > Len(speaker_segments) THEN "UNKNOWN"
    ELSE LET later == LastMatch(word, speaker_segments, i + 1)
         IN  IF later # "UNKNOWN" THEN later
             ELSE IF /\ 2 * speaker_segments[i].start <= word.start + word.end
                     /\ word.start + word.end <= 2 * speaker_segments[i].end
                  THEN speaker_segments[i].speaker
                  ELSE "UNKNOWN"

RECURSIVE FirstMatch(_, _, _)
\* next((seg.speaker for seg in speaker_segments
\*       if seg.start <= word_mid <= seg.end), "UNKNOWN"), from index i on.
FirstMatch(word, speaker_segments, i) ==
    IF i > Len(speaker_segments) THEN "UNKNOWN"
    ELSE IF /\ 2 * speaker_segments[i].start <= word.start + word.end
            /\ word.start + word.end <= 2 * speaker_segments[i].end
         THEN speaker_segments[i].speaker
         ELSE FirstMatch(word, speaker_segments, i + 1)

\* A faulty alignment, which leaves out the words that are in no turn.
\* OnlySpeakerFieldChanges must tell it from align_words_with_speakers.
align_drops_unknown(words, speaker_segments) ==
    IF speaker_segments = <<>>
    THEN [i \in 1..Len(words) |-> [words[i] EXCEPT !.speaker = "SPEAKER_00"]]
    ELSE SelectSeq(
            [i \in 1..Len(words) |->
                [words[i] EXCEPT !.speaker = FirstMatch(words[i], speaker_segments, 1)]],
            LAMBDA w : w.speaker # "UNKNOWN")

\* A faulty alignment, whose single-speaker branch leaves the words that
\* already carry a label alone. NoTurnsSingleSpeaker must tell it from
\* align_words_with_speakers.
align_keeps_labels(words, speaker_segments) ==
    IF speaker_segments = <<>>
    THEN [i \in 1..Len(words) |->
            IF words[i].speaker = None
            THEN [words[i] EXCEPT !.speaker = "SPEAKER_00"] ELSE words[i]]
    ELSE [i \in 1..Len(words) |->
            [words[i] EXCEPT !.speaker = FirstMatch(words[i], speaker_segments, 1)]]

align_words_with_speakers(words, speaker_segments) ==
    IF speaker_segments = <<>>
    THEN [i \in 1..Len(words) |-> [words[i] EXCEPT !.speaker = "SPEAKER_00"]]
    ELSE [i \in 1..Len(words) |->
            [words[i] EXCEPT !.speaker = FirstMatch(words[i], speaker_segments, 1)]]

\* ------------------------------------------------------- segment merger

RECURSIVE JoinTexts(_)
\* " ".join(w.text for w in words)
JoinTexts(words) ==
    IF words = <<>> THEN ""
    ELSE IF Len(words) = 1 THEN words[1].text
    ELSE words[1].text \o " " \o JoinTexts(Tail(words))

\* A faulty _create_segment, which takes the end of the first word.
\* SegmentsAreTheRuns must tell it from create_segment.
create_segment_first_end(words, speaker) ==
    [speaker |-> speaker,
     start |-> words[1].start,
     end |-> words[1].end,
     text |-> JoinTexts(words),
     words |-> List(words)]

create_segment(words, speaker) ==
    [speaker |-> speaker,
     start |-> words[1].start,
     end |-> words[Len(words)].end,
     text |-> JoinTexts(words),
     words |-> List(words)]

\* current_speaker or "UNKNOWN"
SpeakerOrUnknown(current_speaker) ==
    IF current_speaker = None \/ current_speaker = "" THEN "UNKNOWN"
    ELSE current_speaker

RECURSIVE MergeLoop(_, _, _, _, _)
\* The for loop of merge_words_into_segments from word i on, with the
\* loop's three locals, followed by the flush of the last run.
MergeLoop(words, i, segments, current_speaker, current_words) ==
    IF i > Len(words)
    THEN IF current_words # <<>>
         THEN Append(segments,
                     create_segment(current_words, SpeakerOrUnknown(current_speaker)))
         ELSE segments
    ELSE IF words[i].speaker # current_speaker
         THEN MergeLoop(words, i + 1,
                        IF current_words # <<>>
                        THEN Append(segments,
                                    create_segment(current_words,
                                                   SpeakerOrUnknown(current_speaker)))
                        ELSE segments,
                        words[i].speaker, <<words[i]>>)
         ELSE MergeLoop(words, i + 1, segments, current_speaker,
                        Append(current_words, words[i]))

\* A faulty merger, which forgets the last run. OneSegmentPerRun must tell
\* it from merge_words_into_segments.
merge_without_last_run(words) ==
    IF words = <<>> THEN <<>>
    ELSE SubSeq(MergeLoop(words, 1, <<>>, None, <<>>), 1,
                Len(MergeLoop(words, 1, <<>>, None, <<>>)) - 1)

merge_words_into_segments(words) ==
    IF words = <<>> THEN <<>>
    ELSE MergeLoop(words, 1, <<>>, None, <<>>)

\* --------------------------------------------- external engines' outcomes

\* What whisper's model.transcribe returns: text, language and segments,
\* each segment a list of word entries (word, start, end, probability).
WordData(word, start, end, probability) ==
    [word |-> word, start |-> start, end |-> end, probability |-> probability]

WhisperSpeech ==
    [text |-> "hello world", language |-> "en",
     segments |-> << <<WordData("hello", 0, 2, "0.95")>>,
                     <<WordData("world", 2, 4, None)>> >>]

WhisperSilence ==
    [text |-> "", language |-> None, segments |-> <<>>]

WhisperResults == {WhisperSpeech, WhisperSilence}

\* str(e) of an exception an engine or the store raises; an exception
\* raised without arguments has the empty message.
ExcMessages == {"", "error"}

TranscribeOutcomes ==
    [raises : {FALSE}, msg : {None}, raw : WhisperResults]
    \cup [raises : {TRUE}, msg : ExcMessages, raw : {NoneObj}]

\* What the pyannote pipeline yields, after diarize() has sorted the turns
\* by start time.
TurnsTwoSpeakers ==
    << SpeakerSegment("SPEAKER_00", 0, 2), SpeakerSegment("SPEAKER_01", 2, 4) >>

TurnLists == {<<>>, TurnsTwoSpeakers}

DiarizeOutcomes ==
    [raises : {FALSE}, segments : TurnLists]
    \cup [raises : {TRUE}, segments : {<<>>}]

\* ------------------------------------------------- transcription service

RECURSIVE ExtractWords(_, _)
\* The nested loop of TranscriptionService.transcribe over result["segments"]
\* and each segment's "words", from segment s on.
ExtractWords(segments, s) ==
    IF s > Len(segments) THEN <<>>
    ELSE [i \in 1..Len(segments[s]) |->
            Word(segments[s][i].word, segments[s][i].start,
                 segments[s][i].end, segments[s][i].probability)]
         \o ExtractWords(segments, s + 1)

\* TranscriptionService.transcribe on a result the model returned.
transcribe(raw, word_timestamps) ==
    [text |-> raw.text,
     language |-> raw.language,
     words |-> IF word_timestamps THEN ExtractWords(raw.segments, 1) ELSE <<>>]

\* ------------------------------------------------- pipeline orchestrator

\* Python's order of the labels that can occur.
LabelOrder == <<"SPEAKER_00", "SPEAKER_01", "UNKNOWN">>

\* sorted(set(seg.speaker for seg in segments))
sorted_speakers(segments) ==
    SelectSeq(LabelOrder,
              LAMBDA l : \E i \in 1..Len(segments) : segments[i].speaker = l)

\* A faulty step 1, without the try/except: the engine's exception leaves
\* process. DiarizationFailureDegrades must tell it from diarization_step.
diarization_step_propagates(enable_diarization, diar) ==
    IF ~enable_diarization
    THEN [called |-> FALSE, raised |-> FALSE, speaker_segments |-> <<>>]
    ELSE IF diar.raises
    THEN [called |-> TRUE, raised |-> TRUE, speaker_segments |-> <<>>]
    ELSE [called |-> TRUE, raised |-> FALSE, speaker_segments |-> diar.segments]

\* Step 1 of process (the try/except around DiarizationService.diarize):
\* the engine is invoked only when diarization is enabled, and its exception
\* is caught and leaves the turn list empty.
diarization_step(enable_diarization, diar) ==
    IF ~enable_diarization
    THEN [called |-> FALSE, raised |-> FALSE, speaker_segments |-> <<>>]
    ELSE IF diar.raises
    THEN [called |-> TRUE, raised |-> FALSE, speaker_segments |-> <<>>]
    ELSE [called |-> TRUE, raised |-> FALSE, speaker_segments |-> diar.segments]

\* TranscriptionPipeline.process: duration is get_audio_duration's value,
\* diar and trans are what the two engines do when invoked. calls lists the
\* invocations in order.
process(duration, enable_diarization, word_timestamps, diar, trans) ==
    LET step1 == diarization_step(enable_diarization, diar)
        diarCalls == IF step1.called THEN <<"diarize">> ELSE <<>>
    IN  IF step1.raised
        THEN [raised |-> TRUE, by |-> "diarize", msg |-> "error",
              calls |-> diarCalls, result |-> NoneObj]
        ELSE IF trans.raises
        THEN [raised |-> TRUE, by |-> "transcribe", msg |-> trans.msg,
              calls |-> diarCalls \o <<"transcribe">>, result |-> NoneObj]
        ELSE LET transcription_result == transcribe(trans.raw, word_timestamps)
                 aligned_words ==
                     align_words_with_speakers(transcription_result.words,
                                               step1.speaker_segments)
                 segments == merge_words_into_segments(aligned_words)
             IN  [raised |-> FALSE, by |-> None, msg |-> None,
                  calls |-> diarCalls \o <<"transcribe", "align", "merge">>,
                  result |->
                      [text |-> transcription_result.text,
                       language |-> transcription_result.language,
                       duration_seconds |-> duration,
                       speakers |-> sorted_speakers(segments),
                       segments |-> segments,
                       words |-> aligned_words]]

\* ------------------------------------------------------------ formatters

\* format_json: the dictionary stored as the job's result. A segment's
\* words are listed when seg.words is truthy, else None.
\* A faulty format_json, which serialises a missing word list as an empty
\* list. NoWordsSerialisedAsNull must tell it from format_json.
format_json_empty_list(segments, duration_seconds, language, speakers) ==
    [duration_seconds |-> duration_seconds,
     language |-> language,
     speakers |-> speakers,
     segments |->
        [i \in 1..Len(segments) |->
            [speaker |-> segments[i].speaker,
             start |-> segments[i].start,
             end |-> segments[i].end,
             text |-> segments[i].text,
             words |->
                IF segments[i].words # NoneObj
                THEN List([k \in 1..Len(segments[i].words.items) |->
                        [text |-> segments[i].words.items[k].text,
                         start |-> segments[i].words.items[k].start,
                         end |-> segments[i].words.items[k].end,
                         confidence |-> segments[i].words.items[k].confidence]])
                ELSE List(<<>>)]]]

format_json(segments, duration_seconds, language, speakers) ==
    [duration_seconds |-> duration_seconds,
     language |-> language,
     speakers |-> speakers,
     segments |->
        [i \in 1..Len(segments) |->
            [speaker |-> segments[i].speaker,
             start |-> segments[i].start,
             end |-> segments[i].end,
             text |-> segments[i].text,
             words |->
                IF segments[i].words # NoneObj /\ segments[i].words.items # <<>>
                THEN List([k \in 1..Len(segments[i].words.items) |->
                        [text |-> segments[i].words.items[k].text,
                         start |-> segments[i].words.items[k].start,
                         end |-> segments[i].words.items[k].end,
                         confidence |-> segments[i].words.items[k].confidence]])
                ELSE NoneObj]]]

\* f"{n:02d}" and f"{n:03d}"
Pad2(n) == IF n < 10 THEN "0" \o ToString(n) ELSE ToString(n)
Pad3(n) == IF n < 10 THEN "00" \o ToString(n)
           ELSE IF n < 100 THEN "0" \o ToString(n) ELSE ToString(n)

\* _format_timestamp_srt and _format_timestamp_vtt, which differ in the
\* separator before the milliseconds. Segment bounds are whole seconds, so
\* int((seconds % 1) * 1000) is 0.
format_timestamp(seconds, separator) ==
    Pad2(seconds \div 3600) \o ":" \o Pad2((seconds % 3600) \div 60) \o ":"
        \o Pad2(seconds % 60) \o separator \o Pad3(0)

RECURSIVE JoinLines(_)
\* "\n".join(lines)
JoinLines(lines) ==
    IF lines = <<>> THEN ""
    ELSE IF Len(lines) = 1 THEN lines[1]
    ELSE lines[1] \o "\n" \o JoinLines(Tail(lines))

RECURSIVE srt_lines_no_blank(_, _)
\* A format_srt that leaves out the blank line between the entries.
srt_lines_no_blank(segments, i) ==
    IF i > Len(segments) THEN <<>>
    ELSE << ToString(i),
            format_timestamp(segments[i].start, ",") \o " --> "
                \o format_timestamp(segments[i].end, ","),
            "[" \o segments[i].speaker \o "] " \o segments[i].text >>
         \o srt_lines_no_blank(segments, i + 1)

RECURSIVE srt_lines(_, _)
\* The lines format_srt collects for the segments from the i-th on.
srt_lines(segments, i) ==
    IF i > Len(segments) THEN <<>>
    ELSE << ToString(i),
            format_timestamp(segments[i].start, ",") \o " --> "
                \o format_timestamp(segments[i].end, ","),
            "[" \o segments[i].speaker \o "] " \o segments[i].text,
            "" >> \o srt_lines(segments, i + 1)

\* format_srt(segments), include_speaker left at its default.
format_srt(segments) == JoinLines(srt_lines(segments, 1))

RECURSIVE vtt_lines(_, _)
\* The lines format_vtt adds after its header for the segments from the
\* i-th on.
vtt_lines(segments, i) ==
    IF i > Len(segments) THEN <<>>
    ELSE << format_timestamp(segments[i].start, ".") \o " --> "
                \o format_timestamp(segments[i].end, "."),
            "<v " \o segments[i].speaker \o ">" \o segments[i].text,
            "" >> \o vtt_lines(segments, i + 1)

\* format_vtt(segments), include_speaker left at its default.
format_vtt(segments) == JoinLines(<<"WEBVTT", "">> \o vtt_lines(segments, 1))

\* ------------------------------------------------------------ job record

\* JobData as create_transcription builds it: progress, message,
\* completed_at, error and result keep their defaults. expires_at is not a
\* field of JobData: it is the expiry Redis keeps with the record's key,
\* set by save_job.
NewJobData(job_id, created_at, enable_diarization, word_timestamps, file_path) ==
    [job_id |-> job_id,
     status |-> PENDING,
     progress |-> 0,
     message |-> None,
     created_at |-> created_at,
     expires_at |-> 0,
     completed_at |-> None,
     error |-> None,
     enable_diarization |-> enable_diarization,
     word_timestamps |-> word_timestamps,
     file_path |-> file_path,
     result |-> NoneObj]

\* Python truthiness of an optional string, and of an optional dictionary.
Truthy(x) == x # None /\ x # ""
TruthyObj(x) == x # NoneObj /\ x # <<>>

\* TranscriptSegment(**seg) on a stored segment: its words become Word
\* objects, whose speaker field is not stored and defaults to None.
SegmentFromDict(seg) ==
    [speaker |-> seg.speaker, start |-> seg.start, end |-> seg.end,
     text |-> seg.text,
     words |-> IF seg.words = NoneObj THEN NoneObj
               ELSE List([k \in 1..Len(seg.words.items) |->
                        Word(seg.words.items[k].text, seg.words.items[k].start,
                             seg.words.items[k].end,
                             seg.words.items[k].confidence)])]

\* A faulty to_full_response, which looks at the result and not at the
\* status. StatusResponseShape must tell it from to_full_response.
to_full_response_any_status(job) ==
    LET withResult == TruthyObj(job.result)
    IN  [job_id |-> job.job_id,
         status |-> job.status,
         progress |-> job.progress,
         message |-> job.message,
         completed_at |-> job.completed_at,
         error |-> job.error,
         duration_seconds |->
            IF withResult THEN job.result.duration_seconds ELSE NoneObj,
         language |-> IF withResult THEN job.result.language ELSE None,
         speakers |-> IF withResult THEN List(job.result.speakers) ELSE NoneObj,
         segments |->
            IF withResult
            THEN List([i \in 1..Len(job.result.segments) |->
                        SegmentFromDict(job.result.segments[i])])
            ELSE NoneObj]

\* JobData.to_full_response
to_full_response(job) ==
    LET withResult == TruthyObj(job.result) /\ job.status = COMPLETED
    IN  [job_id |-> job.job_id,
         status |-> job.status,
         progress |-> job.progress,
         message |-> job.message,
         completed_at |-> job.completed_at,
         error |-> job.error,
         duration_seconds |->
            IF withResult THEN job.result.duration_seconds ELSE NoneObj,
         language |-> IF withResult THEN job.result.language ELSE None,
         speakers |-> IF withResult THEN List(job.result.speakers) ELSE NoneObj,
         segments |->
            IF withResult
            THEN List([i \in 1..Len(job.result.segments) |->
                        SegmentFromDict(job.result.segments[i])])
            ELSE NoneObj]

\* ------------------------------------------------------ upload validation

\* Path(filename).suffix of the file names submitted.
Filenames == {None, "talk.wav", "notes.txt"}

Suffix(filename) ==
    IF filename = "talk.wav" THEN ".wav"
    ELSE IF filename = "notes.txt" THEN ".txt"
    ELSE ""

\* len(content) of the payloads submitted.
ContentSizes == {max_upload_size_bytes, max_upload_size_bytes + 1}

\* What pydub makes of the payload: unreadable, or len(audio) milliseconds.
Audios ==
    [readable : {FALSE}, duration_ms : {0}]
    \cup [readable : {TRUE},
          duration_ms : {MIN_DURATION_MS - 1, 1000,
                         max_audio_duration_seconds * 1000 + 1}]

\* validate_audio_file on the file just written (it exists).
validate_audio_file(suffix, file_size, audio) ==
    IF suffix \notin SUPPORTED_FORMATS THEN FALSE
    ELSE IF file_size > max_upload_size_bytes THEN FALSE
    ELSE IF ~audio.readable THEN FALSE
    ELSE IF audio.duration_ms > max_audio_duration_seconds * 1000 THEN FALSE
    ELSE IF audio.duration_ms < MIN_DURATION_MS THEN FALSE
    ELSE TRUE

\* The checks of create_transcription before the job record is built: the
\* HTTP status the request is rejected with, or 0 when it passes them.
SubmitRejection(filename, size, audio) ==
    LET file_ext == IF Truthy(filename) THEN Suffix(filename) ELSE ".wav"
    IN  IF Truthy(filename) /\ Suffix(filename) \notin SUPPORTED_FORMATS THEN 400
        ELSE IF size > max_upload_size_bytes THEN 413
        ELSE IF ~validate_audio_file(file_ext, size, audio) THEN 400
        ELSE 0

\* ----------------------------------------------------------------- state

VARIABLES
    store,      \* Redis: job id -> JobData, or NoneObj when there is no record
    queue,      \* broker: job id -> number of task messages waiting
    uploads,    \* disk: job id -> the audio in uploads/<id>.wav, NoneObj if absent
    processed,  \* disk: the job ids whose <id>_processed.wav exists
    nextId,     \* the next fresh job id
    inflight,   \* the job create_transcription has saved and not yet queued, or 0
    accepted,   \* the job ids create_transcription answered 200 for
    worker,     \* worker -> position and locals of process_transcription
    lost,       \* worker processes lost so far
    response,   \* the HTTP response of the step just taken, NoneObj otherwise
    now,        \* the clock, in hours
    input,      \* the arguments of a call of a pure function, or NoneObj
    output,     \* what the call returned, NoneObj before it has
    engine,     \* service -> its class attributes (_model or _pipeline, _lock)
    thread      \* thread -> its position in get_model, get_pipeline or unload

vars == <<store, queue, uploads, processed, nextId, inflight, accepted,
          worker, lost, response, now, input, output, engine, thread>>

\* What the endpoints and the task leave alone.
outside == <<now, input, output, engine, thread>>

\* What the pure functions and the engine services leave alone.
jobVars == <<store, queue, uploads, processed, nextId, inflight, accepted,
             worker, lost, response, now>>

Idle ==
    [pc |-> "idle", job_id |-> 0, job |-> NoneObj, temp_files |-> {},
     result |-> NoneObj, exc |-> NoneObj, diarization_failed |-> FALSE,
     wrote_output |-> FALSE]

JobInit ==
    /\ store = [j \in JobIds |-> NoneObj]
    /\ queue = [j \in JobIds |-> 0]
    /\ uploads = [j \in JobIds |-> NoneObj]
    /\ processed = {}
    /\ nextId = 1
    /\ inflight = 0
    /\ accepted = {}
    /\ worker = [w \in Workers |-> Idle]
    /\ lost = 0
    /\ response = NoneObj
    /\ now = 0

Services == {"TranscriptionService", "DiarizationService"}
Threads == 1..MaxThreads

\* The class attributes of a service: obj is _model or _pipeline, 0 for
\* None and otherwise the number of the instance; moved tells whether the
\* instance is on its device; lock is the thread that holds _lock, 0 for
\* none. loads and unloads count the loads and the unloads completed, and
\* returned collects what the calls have returned. half tells whether a
\* call has returned an instance that was not on its device, early
\* whether is_loaded has answered True for such an instance, and stale
\* whether a call whose initialisation raised has left an instance behind.
EngineInit ==
    /\ engine = [s \in Services |->
                    [obj |-> 0, moved |-> FALSE, lock |-> 0,
                     loads |-> 0, unloads |-> 0, returned |-> {},
                     half |-> FALSE, early |-> FALSE, stale |-> FALSE]]
    /\ thread = [t \in Threads |->
                    [pc |-> "idle", svc |-> None, path |-> None, ret |-> 0]]

Init ==
    /\ JobInit
    /\ input = NoneObj
    /\ output = NoneObj
    /\ EngineInit

\* get_job: the record stored under the id, None when there is none.
get_job(job_id) == IF job_id \in JobIds THEN store[job_id] ELSE NoneObj

\* save_job: the store after setex of the record under its id, which
\* creates the key if it is not there and makes it expire result_ttl_seconds
\* from now.
save_job(job) ==
    [store EXCEPT ![job.job_id] =
        [job EXCEPT !.expires_at = now + result_ttl_hours]]

\* update_job_progress: read the record, set progress and message, save.
update_job_progress(job_id, progress, message) ==
    IF get_job(job_id) # NoneObj
    THEN save_job([get_job(job_id) EXCEPT
                      !.progress = progress,
                      !.message = IF Truthy(message) THEN message ELSE @])
    ELSE store

\* --------------------------------------------------- submission endpoint

\* str(upload_dir / f"{job_id}{file_ext}")
UploadPath(job_id, file_ext) == "uploads/" \o ToString(job_id) \o file_ext

\* A faulty first half of create_transcription, which saves the record
\* before the checks. RejectedSubmissionWritesNothing must tell it from
\* SubmitStore.
SubmitStoreBeforeChecks(rejected, job) ==
    IF job.job_id \in JobIds THEN save_job(job) ELSE store

\* The store after the first half of create_transcription, rejected is
\* SubmitRejection's status: the record is saved only past every check.
SubmitStore(rejected, job) ==
    IF rejected # 0 THEN store ELSE save_job(job)

\* create_transcription up to save_job: a rejected request is answered with
\* its error and leaves no file; an accepted one has its file written and
\* its pending record saved under a fresh id.
Submit(filename, size, audio, enable_diarization, word_timestamps) ==
    LET rejected == SubmitRejection(filename, size, audio)
        file_ext == IF Truthy(filename) THEN Suffix(filename) ELSE ".wav"
        job_id == nextId
        job == NewJobData(job_id, now, enable_diarization, word_timestamps,
                          UploadPath(job_id, file_ext))
    IN  /\ inflight = 0
        /\ rejected # 0 \/ nextId <= MaxJobs
        /\ store' = SubmitStore(rejected, job)
        /\ IF rejected # 0
           THEN /\ response' = [op |-> "submit", job_id |-> 0, code |-> rejected,
                                body |-> NoneObj]
                /\ UNCHANGED <<uploads, nextId, inflight>>
           ELSE /\ response' = NoneObj
                /\ uploads' = [uploads EXCEPT ![job_id] = audio]
                /\ nextId' = nextId + 1
                /\ inflight' = job_id
        /\ UNCHANGED <<queue, processed, accepted, worker, lost>>
        /\ UNCHANGED outside

\* A faulty delay, which sends the task message twice. OneUnitOfWorkPerJob
\* must tell it from delay.
delay_twice(job_id) == [queue EXCEPT ![job_id] = @ + 2]

\* process_transcription.delay(job_id): the broker's queue with one more
\* task message for the job.
delay(job_id) == [queue EXCEPT ![job_id] = @ + 1]

\* process_transcription.delay(job_id), then the JobCreatedResponse.
Enqueue ==
    /\ inflight # 0
    /\ queue' = delay(inflight)
    /\ accepted' = accepted \cup {inflight}
    /\ response' = [op |-> "submit", job_id |-> inflight, code |-> 200,
                    body |-> [job_id |-> inflight, status |-> PENDING,
                              message |-> "Transcription job queued"]]
    /\ inflight' = 0
    /\ UNCHANGED <<store, uploads, processed, nextId, worker, lost>>
    /\ UNCHANGED outside

\* process_transcription.delay raises (the broker cannot be reached): the
\* handler does not catch it and the request ends with a server error.
EnqueueFails ==
    /\ inflight # 0
    /\ response' = [op |-> "submit", job_id |-> 0, code |-> 500,
                    body |-> NoneObj]
    /\ inflight' = 0
    /\ UNCHANGED <<store, queue, uploads, processed, nextId, accepted, worker, lost>>
    /\ UNCHANGED outside

\* ------------------------------------------------------- status endpoint

\* get_transcription; an id that no submission has handed out yet has no
\* record.
GetStatus(job_id) ==
    /\ response' =
          IF get_job(job_id) = NoneObj
          THEN [op |-> "status", job_id |-> job_id, code |-> 404,
                body |-> NoneObj]
          ELSE [op |-> "status", job_id |-> job_id, code |-> 200,
                body |-> to_full_response(get_job(job_id))]
    /\ UNCHANGED <<store, queue, uploads, processed, nextId, inflight,
                   accepted, worker, lost>>
    /\ UNCHANGED outside

\* ----------------------------------------------------- download endpoint

OutputFormat == {"json", "srt", "vtt"}

\* The TranscriptSegment download_transcription builds from a stored
\* segment: an absent or empty word list becomes None.
SegmentForDownload(seg_data) ==
    [speaker |-> seg_data.speaker, start |-> seg_data.start,
     end |-> seg_data.end, text |-> seg_data.text,
     words |-> IF seg_data.words # NoneObj /\ seg_data.words.items # <<>>
               THEN List([k \in 1..Len(seg_data.words.items) |->
                        Word(seg_data.words.items[k].text,
                             seg_data.words.items[k].start,
                             seg_data.words.items[k].end,
                             seg_data.words.items[k].confidence)])
               ELSE NoneObj]

\* A faulty download_transcription, which renders whatever result is
\* stored without looking at the status. DownloadOnlyWhenCompleted must
\* tell it from download_response.
download_response_any_status(job, format) ==
    IF job = NoneObj THEN [code |-> 404, body |-> NoneObj]
    ELSE IF ~TruthyObj(job.result) THEN [code |-> 400, body |-> NoneObj]
    ELSE [code |-> 200,
          body |-> [content |->
                        format_srt([i \in 1..Len(job.result.segments) |->
                            SegmentForDownload(job.result.segments[i])]),
                    media_type |-> "text/plain",
                    filename |-> ToString(job.job_id) \o ".srt"]]

\* The answer of download_transcription for a job and a format: its status
\* code and, with 200, the rendered content.
download_response(job, format) ==
    IF job = NoneObj THEN [code |-> 404, body |-> NoneObj]
    ELSE IF job.status # COMPLETED THEN [code |-> 400, body |-> NoneObj]
    ELSE IF ~TruthyObj(job.result) THEN [code |-> 400, body |-> NoneObj]
    ELSE LET segments == [i \in 1..Len(job.result.segments) |->
                             SegmentForDownload(job.result.segments[i])]
         IN  IF format = "srt"
             THEN [code |-> 200,
                   body |-> [content |-> format_srt(segments),
                             media_type |-> "text/plain",
                             filename |-> ToString(job.job_id) \o ".srt"]]
             ELSE IF format = "vtt"
             THEN [code |-> 200,
                   body |-> [content |-> format_vtt(segments),
                             media_type |-> "text/vtt",
                             filename |-> ToString(job.job_id) \o ".vtt"]]
             ELSE [code |-> 400, body |-> NoneObj]

\* download_transcription
Download(job_id, format) ==
    /\ response' =
          [op |-> "download", job_id |-> job_id,
           code |-> download_response(get_job(job_id), format).code,
           body |-> download_response(get_job(job_id), format).body]
    /\ UNCHANGED <<store, queue, uploads, processed, nextId, inflight,
                   accepted, worker, lost>>
    /\ UNCHANGED outside

\* ------------------------------------------------ process_transcription

Exc(by, msg) == [by |-> by, msg |-> msg]

\* A worker takes a task message from the broker and enters the task:
\* temp_files = [].
Pickup(w, j) ==
    /\ worker[w].pc = "idle"
    /\ queue[j] > 0
    /\ queue' = [queue EXCEPT ![j] = @ - 1]
    /\ worker' = [worker EXCEPT ![w] = [Idle EXCEPT !.pc = "load", !.job_id = j]]
    /\ response' = NoneObj
    /\ UNCHANGED <<store, uploads, processed, nextId, inflight, accepted, lost>>
    /\ UNCHANGED outside

\* The local job after "Update status to processing".
MarkProcessing(job) ==
    [job EXCEPT !.status = PROCESSING, !.progress = 0,
                !.message = "Processing started"]

\* get_job, the two checks, and the write of status processing.
Load(w) ==
    LET job == get_job(worker[w].job_id)
    IN  /\ worker[w].pc = "load"
        /\ IF job = NoneObj
           THEN /\ worker' = [worker EXCEPT
                                 ![w].pc = "handler",
                                 ![w].exc = Exc("load", "Job not found")]
                /\ UNCHANGED store
           ELSE IF ~Truthy(job.file_path)
           THEN /\ worker' = [worker EXCEPT
                                 ![w].pc = "handler",
                                 ![w].exc = Exc("load", "Job has no file path")]
                /\ UNCHANGED store
           ELSE /\ worker' = [worker EXCEPT
                                 ![w].pc = "progress10",
                                 ![w].job = MarkProcessing(job)]
                /\ store' = save_job(MarkProcessing(job))
        /\ response' = NoneObj
        /\ UNCHANGED <<queue, uploads, processed, nextId, inflight, accepted, lost>>
        /\ UNCHANGED outside

\* update_job_progress(job_id, 10.0, "Preprocessing audio")
Progress10(w) ==
    /\ worker[w].pc = "progress10"
    /\ store' = update_job_progress(worker[w].job_id, 10, "Preprocessing audio")
    /\ worker' = [worker EXCEPT ![w].pc = "preprocess"]
    /\ response' = NoneObj
    /\ UNCHANGED <<queue, uploads, processed, nextId, inflight, accepted, lost>>
    /\ UNCHANGED outside

\* What preprocess_audio can do: return the path of the file it exported,
\* raise while loading the input, or raise in audio.export, which may have
\* created the output file by then.
PreprocessOutcomes == {"ok", "load_error", "export_error", "export_error_file"}

\* The temp_files list after the preprocessing step: the path is appended
\* once preprocess_audio has returned.
TempFilesAfter(temp_files, outcome, processed_path) ==
    IF outcome = "ok" THEN temp_files \cup {processed_path} ELSE temp_files

\* preprocess_audio(audio_path) and temp_files.append(processed_path).
Preprocess(w, outcome, msg) ==
    LET j == worker[w].job_id
        out == IF uploads[j] = NoneObj THEN "load_error" ELSE outcome
        written == out \in {"ok", "export_error_file"}
    IN  /\ worker[w].pc = "preprocess"
        /\ processed' = IF written THEN processed \cup {j} ELSE processed
        /\ worker' = [worker EXCEPT
              ![w].pc = IF out = "ok" THEN "progress20" ELSE "handler",
              ![w].temp_files = TempFilesAfter(@, out, j),
              ![w].wrote_output = written,
              ![w].exc = IF out = "ok" THEN NoneObj ELSE Exc("preprocess", msg)]
        /\ response' = NoneObj
        /\ UNCHANGED <<store, queue, uploads, nextId, inflight, accepted, lost>>
        /\ UNCHANGED outside

\* A task that enters the orchestrator without the write of 20.
\* CheckpointsInOrder must tell it from Progress20.
Progress20Skipped(w) ==
    /\ worker[w].pc = "progress20"
    /\ worker' = [worker EXCEPT ![w].pc = "pipeline"]
    /\ response' = NoneObj
    /\ UNCHANGED <<store, queue, uploads, processed, nextId, inflight,
                   accepted, lost>>
    /\ UNCHANGED outside

\* update_job_progress(job_id, 20.0, "Running diarization and transcription")
Progress20(w) ==
    /\ worker[w].pc = "progress20"
    /\ store' = update_job_progress(worker[w].job_id, 20,
                                    "Running diarization and transcription")
    /\ worker' = [worker EXCEPT ![w].pc = "pipeline"]
    /\ response' = NoneObj
    /\ UNCHANGED <<queue, uploads, processed, nextId, inflight, accepted, lost>>
    /\ UNCHANGED outside

\* get_audio_duration(audio_path): the length of the processed file, which
\* is the input's, and 0.0 when the file cannot be read.
get_audio_duration(j) ==
    IF j \in processed /\ uploads[j] # NoneObj
    THEN Seconds(uploads[j].duration_ms) ELSE Seconds(0)

\* result = TranscriptionPipeline.process(...), with what the two engines
\* do when invoked.
RunPipeline(w, diar, trans) ==
    LET j == worker[w].job_id
        job == worker[w].job
        out == process(get_audio_duration(j), job.enable_diarization,
                       job.word_timestamps,
                       diar, trans)
    IN  /\ worker[w].pc = "pipeline"
        /\ worker' = [worker EXCEPT
              ![w].pc = IF out.raised THEN "handler" ELSE "progress90",
              ![w].result = out.result,
              ![w].exc = IF out.raised THEN Exc(out.by, out.msg) ELSE NoneObj,
              ![w].diarization_failed = job.enable_diarization /\ diar.raises]
        /\ response' = NoneObj
        /\ UNCHANGED <<store, queue, uploads, processed, nextId, inflight,
                       accepted, lost>>
        /\ UNCHANGED outside

\* update_job_progress(job_id, 90.0, "Finalizing results")
Progress90(w) ==
    /\ worker[w].pc = "progress90"
    /\ store' = update_job_progress(worker[w].job_id, 90, "Finalizing results")
    /\ worker' = [worker EXCEPT ![w].pc = "complete"]
    /\ response' = NoneObj
    /\ UNCHANGED <<queue, uploads, processed, nextId, inflight, accepted, lost>>
    /\ UNCHANGED outside

\* The local job after "Update job with results".
MarkCompleted(job, result) ==
    [job EXCEPT
        !.status = COMPLETED,
        !.progress = 100,
        !.message = "Transcription completed",
        !.completed_at = "utcnow",
        !.result = format_json(result.segments, result.duration_seconds,
                               result.language, result.speakers)]

\* cleanup_temp_files(file_paths): the files the disk holds without them.
cleanup_temp_files(file_paths) == processed \ file_paths

\* format_json, the update of the local job and its save_job; saved is
\* FALSE when the store raises on the write, with message msg. When the
\* record is saved the task returns through finally, which removes the
\* temporary files.
Complete(w, saved, msg) ==
    LET job == MarkCompleted(worker[w].job, worker[w].result)
    IN  /\ worker[w].pc = "complete"
        /\ store' = IF saved THEN save_job(job) ELSE store
        /\ processed' = IF saved THEN cleanup_temp_files(worker[w].temp_files)
                        ELSE processed
        /\ worker' = [worker EXCEPT
              ![w].pc = IF saved THEN "done" ELSE "handler",
              ![w].job = job,
              ![w].exc = IF saved THEN NoneObj ELSE Exc("save", msg)]
        /\ response' = NoneObj
        /\ UNCHANGED <<queue, uploads, nextId, inflight, accepted, lost>>
        /\ UNCHANGED outside

\* The record the except block saves: the job as reloaded, marked failed
\* with str(e).
MarkFailed(job, e) ==
    [job EXCEPT !.status = FAILED, !.error = e.msg,
                !.message = "Transcription failed"]

\* A faulty handler, which records the failure under the id even when the
\* store has no record for it. RunOnMissingJobWritesNothing must tell it
\* from Handler.
HandlerCreatesRecord(w) ==
    LET found == get_job(worker[w].job_id)
        job == IF found # NoneObj THEN found
               ELSE NewJobData(worker[w].job_id, now, TRUE, TRUE, None)
    IN  /\ worker[w].pc = "handler"
        /\ store' = save_job(MarkFailed(job, worker[w].exc))
        /\ processed' = cleanup_temp_files(worker[w].temp_files)
        /\ worker' = [worker EXCEPT ![w].pc = "done"]
        /\ response' = NoneObj
        /\ UNCHANGED <<queue, uploads, nextId, inflight, accepted, lost>>
        /\ UNCHANGED outside

\* except Exception: reload the job and, if it is there, save it as failed;
\* the exception is raised again, through finally, which removes the
\* temporary files.
Handler(w) ==
    LET job == get_job(worker[w].job_id)
    IN  /\ worker[w].pc = "handler"
        /\ store' = IF job # NoneObj THEN save_job(MarkFailed(job, worker[w].exc))
                    ELSE store
        /\ processed' = cleanup_temp_files(worker[w].temp_files)
        /\ worker' = [worker EXCEPT ![w].pc = "done"]
        /\ response' = NoneObj
        /\ UNCHANGED <<queue, uploads, nextId, inflight, accepted, lost>>
        /\ UNCHANGED outside

\* task_acks_late: the message is acknowledged once the task has returned
\* or raised, and the worker is free again.
Ack(w) ==
    /\ worker[w].pc = "done"
    /\ worker' = [worker EXCEPT ![w] = Idle]
    /\ response' = NoneObj
    /\ UNCHANGED <<store, queue, uploads, processed, nextId, inflight,
                   accepted, lost>>
    /\ UNCHANGED outside

\* task_acks_late with task_reject_on_worker_lost: when the worker process
\* dies before the acknowledgement, the message goes back to the queue and
\* the task is delivered again. Nothing of the task, finally included, runs.
WorkerLost(w) ==
    /\ worker[w].pc # "idle"
    /\ lost < MaxWorkerLost
    /\ lost' = lost + 1
    /\ queue' = [queue EXCEPT ![worker[w].job_id] = @ + 1]
    /\ worker' = [worker EXCEPT ![w] = Idle]
    /\ response' = NoneObj
    /\ UNCHANGED <<store, uploads, processed, nextId, inflight, accepted>>
    /\ UNCHANGED outside

\* ----------------------------------------------------------------- spec

Next ==
    \/ \E filename \in Filenames, size \in ContentSizes, audio \in Audios,
          enable_diarization \in BOOLEAN, word_timestamps \in BOOLEAN :
          Submit(filename, size, audio, enable_diarization, word_timestamps)
    \/ Enqueue
    \/ EnqueueFails
    \/ \E job_id \in JobIds : GetStatus(job_id)
    \/ \E job_id \in JobIds, format \in OutputFormat : Download(job_id, format)
    \/ \E w \in Workers, j \in JobIds : Pickup(w, j)
    \/ \E w \in Workers : Load(w)
    \/ \E w \in Workers : Progress10(w)
    \/ \E w \in Workers, outcome \in PreprocessOutcomes, msg \in ExcMessages :
          Preprocess(w, outcome, msg)
    \/ \E w \in Workers : Progress20(w)
    \/ \E w \in Workers, diar \in DiarizeOutcomes, trans \in TranscribeOutcomes :
          RunPipeline(w, diar, trans)
    \/ \E w \in Workers : Progress90(w)
    \/ \E w \in Workers, saved \in BOOLEAN, msg \in ExcMessages :
          Complete(w, saved, msg)
    \/ \E w \in Workers : Handler(w)
    \/ \E w \in Workers : Ack(w)
    \/ \E w \in Workers : WorkerLost(w)

Spec == Init /\ [][Next]_vars

\* ------------------------------------------------- the service over time

TickHours == result_ttl_hours \div 2

\* Time passes, and Redis drops the keys whose time to live has run out.
Tick ==
    /\ now + TickHours <= MaxTicks * TickHours
    /\ now' = now + TickHours
    /\ store' = [j \in JobIds |->
                    IF store[j] # NoneObj /\ store[j].expires_at <= now'
                    THEN NoneObj ELSE store[j]]
    /\ response' = NoneObj
    /\ UNCHANGED <<queue, uploads, processed, nextId, inflight, accepted,
                   worker, lost, input, output, engine, thread>>

TtlNext == Next \/ Tick

\* The endpoints and the worker of Spec, with the clock running.
TtlSpec == Init /\ [][TtlNext]_vars

\* ------------------------------------------ the service with time limits

\* The positions of a task inside its try block.
InTry == {"load", "progress10", "preprocess", "progress20", "pipeline",
          "progress90", "complete"}

\* task_soft_time_limit: SoftTimeLimitExceeded is raised inside the task,
\* where except Exception catches it.
SoftTimeLimit(w) ==
    /\ worker[w].pc \in InTry
    /\ worker' = [worker EXCEPT
          ![w].pc = "handler",
          ![w].exc = Exc("time_limit", "SoftTimeLimitExceeded()")]
    /\ response' = NoneObj
    /\ UNCHANGED <<store, queue, uploads, processed, nextId, inflight,
                   accepted, lost>>
    /\ UNCHANGED outside

\* task_time_limit: the process that runs the task is killed and replaced,
\* and the message is acknowledged as failed on timeout. Nothing of the
\* task, except and finally included, runs.
HardTimeLimit(w) ==
    /\ worker[w].pc \in InTry \cup {"handler"}
    /\ worker' = [worker EXCEPT ![w] = Idle]
    /\ response' = NoneObj
    /\ UNCHANGED <<store, queue, uploads, processed, nextId, inflight,
                   accepted, lost>>
    /\ UNCHANGED outside

\* The steps of the broker and of the worker, which are taken when they
\* can be.
QueueStep == \E w \in Workers, j \in JobIds : Pickup(w, j)
WorkerStep ==
    \E w \in Workers :
        \/ Load(w)
        \/ Progress10(w)
        \/ \E outcome \in PreprocessOutcomes, msg \in ExcMessages :
              Preprocess(w, outcome, msg)
        \/ Progress20(w)
        \/ \E diar \in DiarizeOutcomes, trans \in TranscribeOutcomes :
              RunPipeline(w, diar, trans)
        \/ Progress90(w)
        \/ \E saved \in BOOLEAN, msg \in ExcMessages : Complete(w, saved, msg)
        \/ Handler(w)
        \/ Ack(w)

LiveNext ==
    \/ Next
    \/ \E w \in Workers : SoftTimeLimit(w)
    \/ \E w \in Workers : HardTimeLimit(w)

Fairness ==
    /\ WF_vars(Enqueue)
    /\ WF_vars(QueueStep)
    /\ WF_vars(WorkerStep)

\* The endpoints and the worker of Spec under the time limits of the
\* task queue, with fair queue and worker; records do not expire.
LiveSpec == Init /\ [][LiveNext]_vars /\ Fairness

\* ------------------------------------------- the pure functions, called

Times == 0..MaxTime
Labels == {"SPEAKER_00", "SPEAKER_01", "UNKNOWN"}

\* The lists of at most n elements of S.
SeqsUpTo(S, n) == UNION {[1..k -> S] : k \in 0..n}

\* Words as align_words_with_speakers may be handed them: unlabelled, as
\* transcribe makes them, or labelled by an earlier call.
AlignWords ==
    {[Word(tc[1], p[1], p[2], tc[2]) EXCEPT !.speaker = l] :
        tc \in {<<"w", None>>, <<"v", "0.9">>},
        p \in {q \in Times \X Times : q[1] <= q[2]},
        l \in {None, "SPEAKER_01"}}

\* Speaker turns, and the lists of them the function may be handed: in
\* any order, since it takes whatever list its caller built.
AlignTurns ==
    {SpeakerSegment(sp, s, e) :
        sp \in {"SPEAKER_00", "SPEAKER_01"}, s \in Times, e \in Times}
AlignTurnLists ==
    SeqsUpTo({t \in AlignTurns : t.start < t.end}, MaxTurns)

AlignInputs ==
    [fn : {"align"}, words : SeqsUpTo(AlignWords, MaxWords),
     turns : AlignTurnLists]

\* Words as merge_words_into_segments may be handed them: labelled by the
\* alignment, or unlabelled.
MergeWords ==
    {[Word(text, p[1], p[2], None) EXCEPT !.speaker = l] :
        text \in {"a", "b"},
        p \in {q \in Times \X Times : q[2] = q[1] + 1},
        l \in Labels \cup {None}}

MergeInputs == [fn : {"merge"}, words : SeqsUpTo(MergeWords, MaxMergeWords)]

\* TranscriptSegment values as format_json may be handed them: words is
\* None, an empty list or a list of words.
FormatSegments ==
    [speaker : {"SPEAKER_00"}, start : {0}, end : {1}, text : {"a"},
     words : {NoneObj, List(<<>>),
              List(<<[Word("a", 0, 1, "0.95") EXCEPT !.speaker = "SPEAKER_00"]>>)}]

FormatInputs ==
    [fn : {"format_json"}, segments : SeqsUpTo(FormatSegments, MaxTurns),
     duration_seconds : {Seconds(1000)}, language : {None, "en"},
     speakers : {<<"SPEAKER_00">>}]

\* TranscriptSegment values as format_srt may be handed them.
SrtSegments ==
    [speaker : {"SPEAKER_00", "SPEAKER_01"}, start : {0, 59}, end : {61},
     text : {"a", "a b"}, words : {NoneObj}]

SrtInputs == [fn : {"format_srt"}, segments : SeqsUpTo(SrtSegments, MaxCues)]

Inputs == AlignInputs \cup MergeInputs \cup FormatInputs \cup SrtInputs

FnInit ==
    /\ JobInit
    /\ input \in Inputs
    /\ output = NoneObj
    /\ EngineInit

\* align_words_with_speakers(words, speaker_segments): the call labels the
\* words of the list it was handed in place and returns that list; it
\* does not write to speaker_segments. output holds the value returned
\* and the two arguments as the call leaves them.
Align ==
    /\ input.fn = "align"
    /\ output' = [fn |-> "align",
                  value |-> align_words_with_speakers(input.words, input.turns),
                  words |-> align_words_with_speakers(input.words, input.turns),
                  turns |-> input.turns]
    /\ UNCHANGED <<jobVars, input, engine, thread>>

\* merge_words_into_segments(words)
Merge ==
    /\ input.fn = "merge"
    /\ output' = [fn |-> "merge",
                  value |-> merge_words_into_segments(input.words)]
    /\ UNCHANGED <<jobVars, input, engine, thread>>

\* format_json(segments, duration_seconds, language, speakers)
FormatJson ==
    /\ input.fn = "format_json"
    /\ output' = [fn |-> "format_json",
                  value |-> format_json(input.segments, input.duration_seconds,
                                        input.language, input.speakers)]
    /\ UNCHANGED <<jobVars, input, engine, thread>>

\* format_srt(segments)
FormatSrt ==
    /\ input.fn = "format_srt"
    /\ output' = [fn |-> "format_srt", value |-> format_srt(input.segments)]
    /\ UNCHANGED <<jobVars, input, engine, thread>>

FnNext ==
    \/ Align
    \/ Merge
    \/ FormatJson
    \/ FormatSrt

FnSpec == FnInit /\ [][FnNext]_vars

\* ------------------------------------------ a call of process, by steps

\* The arguments of a call of process and what the two engines do when
\* it invokes them.
ProcessInputs ==
    [fn : {"process"}, duration : {Seconds(4000)},
     enable_diarization : BOOLEAN, word_timestamps : BOOLEAN,
     diar : DiarizeOutcomes, trans : TranscribeOutcomes]

PipeInit ==
    /\ JobInit
    /\ input \in ProcessInputs
    /\ output = NoneObj
    /\ EngineInit

\* The frame of the call: its position, its locals and, in calls, what it
\* has invoked and seen return so far.
ProcessCall ==
    /\ output = NoneObj
    /\ output' = [fn |-> "process", pc |-> "step1", calls |-> <<>>,
                  speaker_segments |-> <<>>, transcription_result |-> NoneObj,
                  aligned_words |-> <<>>, segments |-> <<>>,
                  exc |-> NoneObj, value |-> NoneObj]
    /\ UNCHANGED <<jobVars, input, engine, thread>>

InProcess(pc) == output # NoneObj /\ output.fn = "process" /\ output.pc = pc

\* if enable_diarization: DiarizationService.diarize(...) is invoked.
DiarizeCall ==
    /\ InProcess("step1")
    /\ input.enable_diarization
    /\ output' = [output EXCEPT !.pc = "diarizing",
                                !.calls = Append(@, "diarize")]
    /\ UNCHANGED <<jobVars, input, engine, thread>>

\* if enable_diarization is false, step 1 is skipped.
DiarizeSkipped ==
    /\ InProcess("step1")
    /\ ~input.enable_diarization
    /\ output' = [output EXCEPT !.pc = "step2"]
    /\ UNCHANGED <<jobVars, input, engine, thread>>

\* A faulty step 1, which invokes the engine again when it has raised.
DiarizeReturnRetries ==
    /\ InProcess("diarizing")
    /\ output' = [output EXCEPT
          !.pc = IF input.diar.raises /\ Len(output.calls) < 4
                 THEN "step1" ELSE "step2",
          !.calls = Append(@, IF input.diar.raises THEN "diarize failed"
                              ELSE "diarize returned"),
          !.speaker_segments =
              diarization_step(TRUE, input.diar).speaker_segments]
    /\ UNCHANGED <<jobVars, input, engine, thread>>

\* diarize returns its turns, or raises and the except clause leaves
\* speaker_segments empty.
DiarizeReturn ==
    /\ InProcess("diarizing")
    /\ output' = [output EXCEPT
          !.pc = "step2",
          !.calls = Append(@, IF input.diar.raises THEN "diarize failed"
                              ELSE "diarize returned"),
          !.speaker_segments =
              diarization_step(TRUE, input.diar).speaker_segments]
    /\ UNCHANGED <<jobVars, input, engine, thread>>

\* TranscriptionService.transcribe(...) is invoked.
TranscribeCall ==
    /\ InProcess("step2")
    /\ output' = [output EXCEPT !.pc = "transcribing",
                                !.calls = Append(@, "transcribe")]
    /\ UNCHANGED <<jobVars, input, engine, thread>>

\* transcribe returns, or raises and the exception leaves process.
TranscribeReturn ==
    /\ InProcess("transcribing")
    /\ output' =
          IF input.trans.raises
          THEN [output EXCEPT
                  !.pc = "raised",
                  !.calls = Append(@, "transcribe failed"),
                  !.exc = Exc("transcribe", input.trans.msg)]
          ELSE [output EXCEPT
                  !.pc = "step3",
                  !.calls = Append(@, "transcribe returned"),
                  !.transcription_result =
                      transcribe(input.trans.raw, input.word_timestamps)]
    /\ UNCHANGED <<jobVars, input, engine, thread>>

\* aligned_words = align_words_with_speakers(words, speaker_segments)
AlignStep ==
    /\ InProcess("step3")
    /\ output' = [output EXCEPT
          !.pc = "step4",
          !.calls = Append(@, "align"),
          !.aligned_words =
              align_words_with_speakers(output.transcription_result.words,
                                        output.speaker_segments)]
    /\ UNCHANGED <<jobVars, input, engine, thread>>

\* segments = merge_words_into_segments(aligned_words)
MergeStep ==
    /\ InProcess("step4")
    /\ output' = [output EXCEPT
          !.pc = "return",
          !.calls = Append(@, "merge"),
          !.segments = merge_words_into_segments(output.aligned_words)]
    /\ UNCHANGED <<jobVars, input, engine, thread>>

\* return PipelineResult(...)
ProcessReturn ==
    /\ InProcess("return")
    /\ output' = [output EXCEPT
          !.pc = "returned",
          !.value = [text |-> output.transcription_result.text,
                     language |-> output.transcription_result.language,
                     duration_seconds |-> input.duration,
                     speakers |-> sorted_speakers(output.segments),
                     segments |-> output.segments,
                     words |-> output.aligned_words]]
    /\ UNCHANGED <<jobVars, input, engine, thread>>

PipeNext ==
    \/ ProcessCall
    \/ DiarizeCall
    \/ DiarizeSkipped
    \/ DiarizeReturn
    \/ TranscribeCall
    \/ TranscribeReturn
    \/ AlignStep
    \/ MergeStep
    \/ ProcessReturn

PipeSpec == PipeInit /\ [][PipeNext]_vars

\* ------------------------------------------------ the engine singletons

\* A thread enters get_model (TranscriptionService) or get_pipeline
\* (DiarizationService).
GetCall(t, s) ==
    /\ thread[t].pc = "idle"
    /\ thread' = [thread EXCEPT ![t] = [pc |-> "check", svc |-> s,
                                        path |-> None, ret |-> 0]]
    /\ UNCHANGED <<jobVars, input, output, engine>>

\* if cls._model is None, read without the lock.
FirstCheck(t) ==
    /\ thread[t].pc = "check"
    /\ thread' = [thread EXCEPT
          ![t].pc = IF engine[thread[t].svc].obj = 0 THEN "acquire" ELSE "return",
          ![t].path = IF engine[thread[t].svc].obj = 0 THEN None ELSE "fast"]
    /\ UNCHANGED <<jobVars, input, output, engine>>

\* with cls._lock
AcquireLock(t) ==
    /\ thread[t].pc = "acquire"
    /\ engine[thread[t].svc].lock = 0
    /\ engine' = [engine EXCEPT ![thread[t].svc].lock = t]
    /\ thread' = [thread EXCEPT ![t].pc = "recheck"]
    /\ UNCHANGED <<jobVars, input, output>>

\* A get_model that loads whenever it holds the lock, whatever _model is.
SecondCheckAlwaysLoads(t) ==
    /\ thread[t].pc = "recheck"
    /\ thread' = [thread EXCEPT ![t].pc = "load", ![t].path = "loaded"]
    /\ UNCHANGED <<jobVars, input, output, engine>>

\* The double check, under the lock.
SecondCheck(t) ==
    /\ thread[t].pc = "recheck"
    /\ thread' = [thread EXCEPT
          ![t].pc = IF engine[thread[t].svc].obj = 0 THEN "load" ELSE "release",
          ![t].path = IF engine[thread[t].svc].obj = 0 THEN "loaded" ELSE "found"]
    /\ UNCHANGED <<jobVars, input, output, engine>>

\* cls._model = whisper.load_model(...), which leaves the model on its
\* device, and cls._pipeline = Pipeline.from_pretrained(...), which is
\* followed by cls._pipeline.to(device).
LoadEngine(t) ==
    LET s == thread[t].svc
    IN  /\ thread[t].pc = "load"
        /\ engine' = [engine EXCEPT
              ![s].obj = engine[s].loads + 1,
              ![s].loads = @ + 1,
              ![s].moved = (s = "TranscriptionService")]
        /\ thread' = [thread EXCEPT
              ![t].pc = IF s = "TranscriptionService" THEN "release"
                        ELSE "to_device"]
        /\ UNCHANGED <<jobVars, input, output>>

\* The load raises: the with statement releases the lock and the call
\* ends with the exception.
LoadEngineFails(t) ==
    /\ thread[t].pc = "load"
    /\ engine' = [engine EXCEPT
          ![thread[t].svc].lock = 0,
          ![thread[t].svc].stale = @ \/ engine[thread[t].svc].obj # 0]
    /\ thread' = [thread EXCEPT ![t].pc = "idle", ![t].path = "raised"]
    /\ UNCHANGED <<jobVars, input, output>>

\* cls._pipeline.to(device)
MoveToDevice(t) ==
    /\ thread[t].pc = "to_device"
    /\ engine' = [engine EXCEPT ![thread[t].svc].moved = TRUE]
    /\ thread' = [thread EXCEPT ![t].pc = "release"]
    /\ UNCHANGED <<jobVars, input, output>>

\* cls._pipeline.to(device) raises: the lock is released, _pipeline stays
\* assigned and the call ends with the exception.
MoveToDeviceFails(t) ==
    /\ thread[t].pc = "to_device"
    /\ engine' = [engine EXCEPT
          ![thread[t].svc].lock = 0,
          ![thread[t].svc].stale = @ \/ engine[thread[t].svc].obj # 0]
    /\ thread' = [thread EXCEPT ![t].pc = "idle", ![t].path = "raised"]
    /\ UNCHANGED <<jobVars, input, output>>

\* The end of the with block.
ReleaseLock(t) ==
    /\ thread[t].pc = "release"
    /\ engine' = [engine EXCEPT ![thread[t].svc].lock = 0]
    /\ thread' = [thread EXCEPT ![t].pc = "return"]
    /\ UNCHANGED <<jobVars, input, output>>

\* return cls._model: the attribute is read again, without the lock.
ReturnEngine(t) ==
    /\ thread[t].pc = "return"
    /\ thread' = [thread EXCEPT ![t].pc = "idle",
                                ![t].ret = engine[thread[t].svc].obj]
    /\ engine' = [engine EXCEPT
          ![thread[t].svc].returned = @ \cup {engine[thread[t].svc].obj},
          ![thread[t].svc].half =
              @ \/ (engine[thread[t].svc].obj # 0 /\ ~engine[thread[t].svc].moved)]
    /\ UNCHANGED <<jobVars, input, output>>

\* is_loaded: return cls._model is not None, read without the lock.
IsLoaded(t, s) ==
    /\ thread[t].pc = "idle"
    /\ engine' = [engine EXCEPT
          ![s].early = @ \/ (engine[s].obj # 0 /\ ~engine[s].moved)]
    /\ UNCHANGED <<jobVars, input, output, thread>>

\* unload: under the lock, a loaded engine is dropped.
UnloadEngine(t, s) ==
    /\ thread[t].pc = "idle"
    /\ engine[s].lock = 0
    /\ engine[s].unloads < MaxUnloads
    /\ engine' = [engine EXCEPT
          ![s].obj = 0,
          ![s].moved = FALSE,
          ![s].unloads = IF engine[s].obj # 0 THEN @ + 1 ELSE @]
    /\ UNCHANGED <<jobVars, input, output, thread>>

EngineNext ==
    \/ \E t \in Threads, s \in Services : GetCall(t, s)
    \/ \E t \in Threads : FirstCheck(t)
    \/ \E t \in Threads : AcquireLock(t)
    \/ \E t \in Threads : SecondCheck(t)
    \/ \E t \in Threads : LoadEngine(t)
    \/ \E t \in Threads : LoadEngineFails(t)
    \/ \E t \in Threads : MoveToDevice(t)
    \/ \E t \in Threads : MoveToDeviceFails(t)
    \/ \E t \in Threads : ReleaseLock(t)
    \/ \E t \in Threads : ReturnEngine(t)
    \/ \E t \in Threads, s \in Services : UnloadEngine(t, s)
    \/ \E t \in Threads, s \in Services : IsLoaded(t, s)

EngineSpec == Init /\ [][EngineNext]_vars

\* ----------------------------------------------------------- properties

\* The task messages of a job that are waiting or being run.
Running(j) == {w \in Workers : worker[w].pc # "idle" /\ worker[w].job_id = j}
UnitsOfWork(j) == queue[j] + Cardinality(Running(j))

Terminal == {COMPLETED, FAILED}

\* C1: once a job's persisted status is completed or failed, no later step,
\* a run on a re-delivered task message included, changes it.
TerminalStatusNeverChanges ==
    [][\A j \in JobIds :
          (store[j] # NoneObj /\ store[j].status \in Terminal)
              => (store'[j] # NoneObj /\ store'[j].status = store[j].status)]_vars

\* C2: every change of a job's persisted status is pending -> processing,
\* processing -> completed or processing -> failed.
OnlyThreeTransitions ==
    [][\A j \in JobIds :
          (/\ store[j] # NoneObj
           /\ store'[j] # NoneObj
           /\ store'[j].status # store[j].status)
              => <<store[j].status, store'[j].status>> \in
                    {<<PENDING, PROCESSING>>, <<PROCESSING, COMPLETED>>,
                     <<PROCESSING, FAILED>>}]_vars

\* C3: the progress values written to a job's record never decrease.
ProgressNeverDecreases ==
    [][\A j \in JobIds :
          (store[j] # NoneObj /\ store'[j] # NoneObj)
              => store'[j].progress >= store[j].progress]_vars

\* C4: when the transcription engine has raised, the run ends with the job
\* failed, a non-empty error message and no result.
TranscriptionFailureRecorded ==
    \A w \in Workers :
        (/\ worker[w].pc = "done"
         /\ worker[w].exc # NoneObj
         /\ worker[w].exc.by = "transcribe")
            => /\ store[worker[w].job_id] # NoneObj
               /\ store[worker[w].job_id].status = FAILED
               /\ Truthy(store[worker[w].job_id].error)
               /\ store[worker[w].job_id].result = NoneObj

\* C5: when the diarization engine has raised and nothing else has failed,
\* the run ends with the job completed and every word and every segment of
\* the result labelled SPEAKER_00.
DiarizationFailureDegrades ==
    \A w \in Workers :
        (/\ worker[w].pc = "done"
         /\ worker[w].diarization_failed
         /\ ~(worker[w].exc # NoneObj /\ worker[w].exc.by # "diarize"))
            => /\ store[worker[w].job_id] # NoneObj
               /\ store[worker[w].job_id].status = COMPLETED
               /\ worker[w].result # NoneObj
               /\ \A i \in 1..Len(worker[w].result.words) :
                      worker[w].result.words[i].speaker = "SPEAKER_00"
               /\ \A i \in 1..Len(worker[w].result.segments) :
                      worker[w].result.segments[i].speaker = "SPEAKER_00"
               /\ store[worker[w].job_id].result # NoneObj
               /\ \A i \in 1..Len(store[worker[w].job_id].result.segments) :
                      store[worker[w].job_id].result.segments[i].speaker
                          = "SPEAKER_00"

\* A run with words to label has ended after its diarization engine raised.
DiarizationFailedRunDone ==
    \E w \in Workers :
        /\ worker[w].pc = "done"
        /\ worker[w].diarization_failed
        /\ worker[w].exc = NoneObj
        /\ worker[w].result # NoneObj
        /\ Len(worker[w].result.words) = 2
        /\ Len(worker[w].result.segments) = 1

\* C6: a submission rejected by validation (400 or 413) leaves the job
\* store unchanged and enqueues nothing.
RejectedSubmissionWritesNothing ==
    [][(/\ response' # NoneObj
        /\ response'.op = "submit"
        /\ response'.code \in {400, 413})
           => (store' = store /\ queue' = queue)]_vars

\* A submission has been rejected while the store holds a record.
RejectedWithRecordStored ==
    /\ response # NoneObj
    /\ response.op = "submit"
    /\ response.code \in {400, 413}
    /\ \E j \in JobIds : store[j] # NoneObj

NoTempFileAfterRun ==
    \A w \in Workers :
        (worker[w].pc = "done" /\ worker[w].wrote_output)
            => worker[w].job_id \notin processed

\* C9: when a run has ended, the uploaded input file and the re-encoded
\* file are both deleted.
InputFilesDeletedAfterRun ==
    \A w \in Workers :
        worker[w].pc = "done"
            => /\ uploads[worker[w].job_id] = NoneObj
               /\ worker[w].job_id \notin processed

\* C10: the status endpoint answers not-found exactly for an id without a
\* record; otherwise duration, language, speakers and segments are the
\* stored result's when the job is completed and has a result, and are
\* absent in every other case, a stored result notwithstanding.
StatusResponseShape ==
    (response # NoneObj /\ response.op = "status")
        => LET job == get_job(response.job_id)
               body == response.body
           IN  /\ response.code = 404 <=> job = NoneObj
               /\ response.code = 200 <=> job # NoneObj
               /\ job # NoneObj =>
                    IF job.status = COMPLETED /\ job.result # NoneObj
                    THEN /\ body.duration_seconds = job.result.duration_seconds
                         /\ body.language = job.result.language
                         /\ body.speakers = List(job.result.speakers)
                         /\ body.segments # NoneObj
                         /\ Len(body.segments.items)
                                = Len(job.result.segments)
                         /\ body.status = COMPLETED
                    ELSE /\ body.duration_seconds = NoneObj
                         /\ body.language = None
                         /\ body.speakers = NoneObj
                         /\ body.segments = NoneObj
                         /\ body.status = job.status

\* The status of a job that is not completed and whose record holds a
\* result has been asked for.
StatusOfUncompletedJobWithResult ==
    /\ response # NoneObj
    /\ response.op = "status"
    /\ response.code = 200
    /\ store[response.job_id].status # COMPLETED
    /\ store[response.job_id].result # NoneObj

\* C11: the download endpoint answers with rendered content only for a job
\* that is completed and has a stored result with segments, with not-found
\* for an id without a record and with a client error for a job in any
\* other status or without a result; it never writes to the job store.
DownloadOnlyWhenCompleted ==
    [][(response' # NoneObj /\ response'.op = "download")
          => LET job == get_job(response'.job_id)
             IN  /\ store' = store
                 /\ queue' = queue
                 /\ response'.code \in {200, 400, 404}
                 /\ response'.code = 404 <=> job = NoneObj
                 /\ response'.code = 200 =>
                       /\ job.status = COMPLETED
                       /\ job.result # NoneObj
                       /\ response'.body # NoneObj
                       /\ response'.body.content
                              \in {format_srt(job.result.segments),
                                   format_vtt(job.result.segments)}
                 /\ (job # NoneObj
                        /\ (job.status # COMPLETED \/ job.result = NoneObj))
                       => response'.code = 400
                 /\ response'.code # 200 => response'.body = NoneObj]_vars

\* A completed job with segments has been downloaded.
DownloadServed ==
    /\ response # NoneObj
    /\ response.op = "download"
    /\ response.code = 200
    /\ response.body.content # ""
    /\ Len(store[response.job_id].result.segments) > 0

\* C12: a job record expires a fixed time to live after its creation: its
\* expiry instant is created_at + TTL whatever was written to it since, so
\* no record is in the store at or after that instant.
ExpiryCountedFromCreation ==
    \A j \in JobIds :
        store[j] # NoneObj
            => /\ store[j].expires_at = store[j].created_at + result_ttl_hours
               /\ now < store[j].created_at + result_ttl_hours

JobNotFound == Exc("load", "Job not found")

\* C13: a run for an id without a record in the store goes from the lookup
\* straight to the failure handler and from there out with the error
\* raised; neither step writes to the store or to the disk, the handler
\* creates no record for the id, and no preprocessing or pipeline step has
\* run.
RunOnMissingJobWritesNothing ==
    [][\A w \in Workers :
          /\ (/\ worker[w].pc = "load"
              /\ get_job(worker[w].job_id) = NoneObj
              /\ worker'[w].pc \notin {"load", "idle"})
                => /\ worker'[w].pc = "handler"
                   /\ worker'[w].exc = JobNotFound
                   /\ store' = store
                   /\ processed' = processed
                   /\ uploads' = uploads
          /\ (/\ worker[w].pc = "handler"
              /\ worker[w].exc = JobNotFound
              /\ worker'[w].pc \notin {"handler", "idle"})
                => /\ worker'[w].pc = "done"
                   /\ worker'[w].exc = JobNotFound
                   /\ store' = store
                   /\ store'[worker[w].job_id] = NoneObj
                   /\ processed' = processed
                   /\ uploads' = uploads
                   /\ worker'[w].temp_files = {}
                   /\ ~worker'[w].wrote_output
                   /\ worker'[w].result = NoneObj]_vars

\* A run for an id whose record had expired has ended.
RunOnMissingJobDone ==
    \E w \in Workers :
        /\ worker[w].pc = "done"
        /\ worker[w].exc = JobNotFound
        /\ store[worker[w].job_id] = NoneObj

Aligned == output # NoneObj /\ output.fn = "align"

\* C14: with an empty turn list, align returns every word with the speaker
\* SPEAKER_00, the words that carried another label included.
NoTurnsSingleSpeaker ==
    (Aligned /\ input.turns = <<>>)
        => /\ Len(output.value) = Len(input.words)
           /\ \A i \in 1..Len(output.value) :
                  output.value[i].speaker = "SPEAKER_00"

\* Words, one of them labelled SPEAKER_01 and one unlabelled, have been
\* aligned with an empty turn list.
LabelledWordsAlignedWithoutTurns ==
    /\ Aligned
    /\ input.turns = <<>>
    /\ \E i \in 1..Len(input.words) : input.words[i].speaker = "SPEAKER_01"
    /\ \E i \in 1..Len(input.words) : input.words[i].speaker = None

\* The turns that hold the midpoint of a word, bounds included, and those
\* that hold it strictly inside.
TurnsAround(word, turns) ==
    {k \in 1..Len(turns) :
        /\ 2 * turns[k].start <= word.start + word.end
        /\ word.start + word.end <= 2 * turns[k].end}
TurnsStrictlyAround(word, turns) ==
    {k \in 1..Len(turns) :
        /\ 2 * turns[k].start < word.start + word.end
        /\ word.start + word.end < 2 * turns[k].end}

\* C15, as stated: with a non-empty turn list, a word whose midpoint is
\* strictly inside exactly one turn gets that turn's speaker, and a word
\* whose midpoint is in no turn gets UNKNOWN.
StrictlyInsideOneTurnDecides ==
    (Aligned /\ input.turns # <<>>)
        => \A i \in 1..Len(input.words) :
              /\ Cardinality(TurnsStrictlyAround(input.words[i], input.turns)) = 1
                    => \A k \in TurnsStrictlyAround(input.words[i], input.turns) :
                          output.value[i].speaker = input.turns[k].speaker
              /\ TurnsAround(input.words[i], input.turns) = {}
                    => output.value[i].speaker = "UNKNOWN"

\* C15, as the code has it: with a non-empty turn list, a word whose
\* midpoint is in exactly one turn, bounds included, gets that turn's
\* speaker, and a word whose midpoint is in no turn gets UNKNOWN; words
\* with the same midpoint get the same speaker whatever their edges.
MidpointDecidesSpeaker ==
    (Aligned /\ input.turns # <<>>)
        => /\ \A i \in 1..Len(input.words) :
                /\ Cardinality(TurnsAround(input.words[i], input.turns)) = 1
                      => \A k \in TurnsAround(input.words[i], input.turns) :
                            output.value[i].speaker = input.turns[k].speaker
                /\ TurnsAround(input.words[i], input.turns) = {}
                      => output.value[i].speaker = "UNKNOWN"
           /\ \A i, k \in 1..Len(input.words) :
                (input.words[i].start + input.words[i].end
                    = input.words[k].start + input.words[k].end)
                    => output.value[i].speaker = output.value[k].speaker

\* Two words with different edges and the same midpoint, which is in
\* exactly one of two turns, have been aligned.
MidpointInOneTurnAligned ==
    /\ Aligned
    /\ Len(input.turns) = 2
    /\ Len(input.words) = 2
    /\ input.words[1].start # input.words[2].start
    /\ input.words[1].start + input.words[1].end
          = input.words[2].start + input.words[2].end
    /\ Cardinality(TurnsAround(input.words[1], input.turns)) = 1
    /\ output.value[1].speaker = "SPEAKER_01"

Merged == output # NoneObj /\ output.fn = "merge"

AllLabelled(words) == \A i \in 1..Len(words) : words[i].speaker \in Labels

\* The places where a maximal run of equal labels starts, the place where
\* the k-th run starts and the place where it ends.
RunStarts(words) ==
    {i \in 1..Len(words) : i = 1 \/ words[i].speaker # words[i - 1].speaker}
RunStart(words, k) ==
    CHOOSE i \in RunStarts(words) :
        Cardinality({j \in RunStarts(words) : j <= i}) = k
RunEnd(words, k) ==
    IF k = Cardinality(RunStarts(words)) THEN Len(words)
    ELSE RunStart(words, k + 1) - 1

\* C16: for labelled words, merge returns as many segments as the input
\* has maximal runs of equal label, and the empty list for no words.
OneSegmentPerRun ==
    (Merged /\ AllLabelled(input.words))
        => /\ Len(output.value) = Cardinality(RunStarts(input.words))
           /\ input.words = <<>> => output.value = <<>>

\* Three words whose label re-appears after another one have been merged
\* into three segments.
ReappearingLabelMerged ==
    /\ Merged
    /\ Len(input.words) = 3
    /\ input.words[1].speaker = "UNKNOWN"
    /\ input.words[2].speaker = "SPEAKER_00"
    /\ input.words[3].speaker = "UNKNOWN"
    /\ Len(output.value) = 3

RECURSIVE SpacedTexts(_)
\* The texts of the words, each but the first after one space.
SpacedTexts(words) ==
    IF Len(words) = 1 THEN words[1].text
    ELSE SpacedTexts(SubSeq(words, 1, Len(words) - 1))
            \o " " \o words[Len(words)].text

RECURSIVE ConcatWords(_)
ConcatWords(segments) ==
    IF segments = <<>> THEN <<>>
    ELSE segments[1].words.items \o ConcatWords(Tail(segments))

\* C17: for labelled words, the k-th segment merge returns is the k-th run:
\* its speaker is the run's label, its text the run's word texts joined by
\* single spaces, its start the first word's start, its end the last
\* word's end and its words the run's words in order; the words of all
\* segments, concatenated, are the input.
SegmentsAreTheRuns ==
    (Merged /\ AllLabelled(input.words))
        => /\ \A k \in 1..Len(output.value) :
                LET first == RunStart(input.words, k)
                    last == RunEnd(input.words, k)
                    run == SubSeq(input.words, first, last)
                IN  /\ output.value[k].speaker = input.words[first].speaker
                    /\ \A i \in first..last :
                          input.words[i].speaker = output.value[k].speaker
                    /\ output.value[k].text = SpacedTexts(run)
                    /\ output.value[k].start = input.words[first].start
                    /\ output.value[k].end = input.words[last].end
                    /\ output.value[k].words = List(run)
           /\ ConcatWords(output.value) = input.words

\* Words have been merged into a segment of two words with different texts
\* and different bounds, followed by another segment.
TwoWordSegmentMerged ==
    /\ Merged
    /\ AllLabelled(input.words)
    /\ Len(output.value) = 2
    /\ Len(output.value[1].words.items) = 2
    /\ input.words[1].text # input.words[2].text
    /\ input.words[1].end # input.words[2].end

\* C18: every job whose persisted status is completed has a stored result
\* with a non-empty speakers list and at least one segment.
CompletedHasSpeakersAndSegments ==
    \A j \in JobIds :
        (store[j] # NoneObj /\ store[j].status = COMPLETED)
            => /\ store[j].result # NoneObj
               /\ store[j].result.speakers # <<>>
               /\ Len(store[j].result.segments) >= 1

Formatted == output # NoneObj /\ output.fn = "format_json"

\* C20, as stated: format_json serialises a segment's words as null exactly
\* when the segment has no word list; a segment with a word list, an empty
\* one included, is serialised with a list.
NullWordsOnlyWithoutWordList ==
    Formatted
        => \A i \in 1..Len(input.segments) :
              output.value.segments[i].words = NoneObj
                  <=> input.segments[i].words = NoneObj

\* C20, as the code has it: format_json serialises a segment's words as
\* null exactly when the segment has no word list or an empty one, and
\* otherwise as the list of its words' text, start, end and confidence, in
\* order.
NoWordsSerialisedAsNull ==
    Formatted
        => /\ Len(output.value.segments) = Len(input.segments)
           /\ \A i \in 1..Len(input.segments) :
                LET words == input.segments[i].words
                    out == output.value.segments[i].words
                IN  IF words = NoneObj \/ words = List(<<>>)
                    THEN out = NoneObj
                    ELSE /\ out # NoneObj
                         /\ Len(out.items) = Len(words.items)
                         /\ \A k \in 1..Len(words.items) :
                               out.items[k] =
                                  [text |-> words.items[k].text,
                                   start |-> words.items[k].start,
                                   end |-> words.items[k].end,
                                   confidence |-> words.items[k].confidence]

\* A segment without a word list, next to one with words, has been
\* serialised.
SegmentWithoutWordListFormatted ==
    /\ Formatted
    /\ Len(input.segments) = 2
    /\ input.segments[1].words = NoneObj
    /\ output.value.segments[1].words = NoneObj
    /\ input.segments[2].words # NoneObj
    /\ output.value.segments[2].words # NoneObj

\* C19: while a service has not been unloaded, however the get_model (or
\* get_pipeline) calls of the threads interleave, its load completes at
\* most once, every call that has returned has returned the instance of
\* that one load, and that instance is still the one the service holds.
LoadedOnceAndShared ==
    \A s \in Services :
        engine[s].unloads = 0 =>
            /\ engine[s].loads <= 1
            /\ engine[s].returned \subseteq {1}
            /\ engine[s].returned # {} =>
                   engine[s].loads = 1 /\ engine[s].obj = 1

\* Two threads were inside the same service's call while it was not
\* loaded: one loaded it, the other found it loaded under the lock, and
\* both have returned the instance, with no unload.
ConcurrentCallsReturned ==
    \E s \in Services : \E t, u \in Threads :
        /\ engine[s].unloads = 0
        /\ thread[t].svc = s /\ thread[u].svc = s
        /\ thread[t].pc = "idle" /\ thread[u].pc = "idle"
        /\ thread[t].path = "loaded" /\ thread[u].path = "found"
        /\ thread[t].ret = 1 /\ thread[u].ret = 1

\* The positions of the line feeds of the text s, and its pieces between
\* them.
LineFeeds(s) == {j \in 1..Len(s) : SubSeq(s, j, j) = "\n"}

SplitLines(s) ==
    LET feeds == LineFeeds(s)
        c == Cardinality(feeds)
        cut == [k \in 0..(c + 1) |->
                  IF k = 0 THEN 0
                  ELSE IF k = c + 1 THEN Len(s) + 1
                  ELSE CHOOSE j \in feeds :
                          Cardinality({i \in feeds : i <= j}) = k]
    IN  [k \in 1..(c + 1) |-> SubSeq(s, cut[k - 1] + 1, cut[k] - 1)]

SrtFormatted == output # NoneObj /\ output.fn = "format_srt"

\* C21: format_srt over n segments gives the empty text when n = 0 and
\* otherwise 4n lines, each ended by a line feed: for k = 1..n, in the
\* order of the segments, the number k, a line with the two timestamps of
\* the k-th segment around " --> ", the k-th segment's text after its
\* speaker in brackets, and an empty line.
SrtCuesNumberedInOrder ==
    SrtFormatted =>
        LET n == Len(input.segments)
            lines == SplitLines(output.value)
        IN  IF n = 0 THEN output.value = ""
            ELSE /\ Len(lines) = 4 * n
                 /\ \A k \in 1..n :
                      /\ lines[4 * k - 3] = ToString(k)
                      /\ Len(lines[4 * k - 2]) = 29
                      /\ SubSeq(lines[4 * k - 2], 1, 12)
                            = format_timestamp(input.segments[k].start, ",")
                      /\ SubSeq(lines[4 * k - 2], 13, 17) = " --> "
                      /\ SubSeq(lines[4 * k - 2], 18, 29)
                            = format_timestamp(input.segments[k].end, ",")
                      /\ lines[4 * k - 1]
                            = "[" \o input.segments[k].speaker \o "] "
                                \o input.segments[k].text
                      /\ lines[4 * k] = ""

\* Three segments that differ in speaker, start and text were formatted.
ThreeCuesFormatted ==
    /\ SrtFormatted
    /\ Len(input.segments) = 3
    /\ input.segments[1].speaker # input.segments[2].speaker
    /\ input.segments[1].start # input.segments[2].start
    /\ input.segments[2].text # input.segments[3].text

\* The least element of a non-empty set of numbers.
Least(S) == CHOOSE k \in S : \A m \in S : k <= m

\* C22: with a non-empty turn list, a word whose midpoint is in one or
\* more turns, bounds included, gets the speaker of the one that comes
\* first in the list, whatever the start times of the turns and the
\* labels of the other words are.
FirstTurnInListOrderWins ==
    (Aligned /\ input.turns # <<>>)
        => \A i \in 1..Len(input.words) :
              TurnsAround(input.words[i], input.turns) # {}
                 => output.value[i].speaker
                       = input.turns[Least(TurnsAround(input.words[i],
                                                       input.turns))].speaker

\* A word whose midpoint is in both of two turns of different speakers,
\* the first of which starts later than the second, has been aligned
\* next to a word that carried a label.
MidpointInTwoTurnsAligned ==
    /\ Aligned
    /\ Len(input.turns) = 2
    /\ input.turns[1].speaker # input.turns[2].speaker
    /\ input.turns[1].start > input.turns[2].start
    /\ Len(input.words) = 2
    /\ TurnsAround(input.words[1], input.turns) = {1, 2}
    /\ input.words[2].speaker # None
    /\ output.value[1].speaker = input.turns[1].speaker

\* C23: the alignment leaves the turn list as it was, returns as many
\* words as it was handed, and the i-th word returned, like the i-th word
\* of the caller's list after the call, is the i-th word handed in but
\* for its speaker: text, start, end and confidence are the same.
OnlySpeakerFieldChanges ==
    Aligned
        => /\ output.turns = input.turns
           /\ Len(output.value) = Len(input.words)
           /\ Len(output.words) = Len(input.words)
           /\ \A i \in 1..Len(input.words) :
                /\ [output.value[i] EXCEPT !.speaker = input.words[i].speaker]
                      = input.words[i]
                /\ [output.words[i] EXCEPT !.speaker = input.words[i].speaker]
                      = input.words[i]

\* Two words of different text, times and confidence have been aligned
\* against two turns, and both have changed speaker: the first is in no
\* turn, the second is in one.
DifferentWordsRelabelled ==
    /\ Aligned
    /\ Len(input.turns) = 2
    /\ Len(input.words) = 2
    /\ input.words[1].text # input.words[2].text
    /\ input.words[1].confidence # input.words[2].confidence
    /\ input.words[1].start > input.words[2].start
    /\ output.value[1].speaker = "UNKNOWN"
    /\ input.words[2].speaker = "SPEAKER_01"
    /\ output.value[2].speaker = "SPEAKER_00"

\* The places of an entry in the list of what a call of process has
\* invoked, and whether every a comes after some b.
Places(calls, a) == {k \in 1..Len(calls) : calls[k] = a}
After(calls, a, bs) ==
    \A k \in Places(calls, a) : \E m \in 1..(k - 1) : calls[m] \in bs

ProcessEnded == InProcess("returned") \/ InProcess("raised")

\* The steps of a call end as the operator process says.
StepsAgreeWithProcess ==
    ProcessEnded =>
        LET out == process(input.duration, input.enable_diarization,
                           input.word_timestamps, input.diar, input.trans)
        IN  /\ out.raised = InProcess("raised")
            /\ out.result = output.value
            /\ out.raised => Exc(out.by, out.msg) = output.exc

\* C24: in a call of process, the diarization engine is invoked at most
\* once and only when diarization is enabled; the transcription engine is
\* invoked at most once, exactly once when the call has ended, and, when
\* diarization is enabled, only after the diarization call has returned or
\* failed; the alignment comes only after the transcription has returned
\* and the merging only after the alignment. A call that returns with
\* diarization disabled has every word labelled SPEAKER_00.
ProcessCallsInOrder ==
    (output # NoneObj /\ output.fn = "process") =>
        /\ Cardinality(Places(output.calls, "diarize")) <= 1
        /\ Places(output.calls, "diarize") # {} => input.enable_diarization
        /\ Cardinality(Places(output.calls, "transcribe")) <= 1
        /\ ProcessEnded => Cardinality(Places(output.calls, "transcribe")) = 1
        /\ input.enable_diarization =>
               After(output.calls, "transcribe",
                     {"diarize returned", "diarize failed"})
        /\ After(output.calls, "align", {"transcribe returned"})
        /\ After(output.calls, "merge", {"align"})
        /\ Cardinality(Places(output.calls, "align")) <= 1
        /\ Cardinality(Places(output.calls, "merge")) <= 1
        /\ (InProcess("returned") /\ ~input.enable_diarization) =>
               \A i \in 1..Len(output.value.words) :
                   output.value.words[i].speaker = "SPEAKER_00"

\* A call with diarization enabled has returned a result with words after
\* invoking both engines, aligning and merging.
ProcessReturnedAfterAllSteps ==
    /\ InProcess("returned")
    /\ input.enable_diarization
    /\ output.calls = <<"diarize", "diarize returned", "transcribe",
                        "transcribe returned", "align", "merge">>
    /\ Len(output.value.words) = 2

\* A step writes progress p over another value in the record of job j.
Wrote(j, p) ==
    /\ store[j] # NoneObj
    /\ store'[j] # NoneObj
    /\ store[j].progress # p
    /\ store'[j].progress = p

\* C25, as stated: the write of 10 comes over 0 once the preprocessing of
\* the run has finished, the write of 20 over 10 on entering the
\* orchestrator, the write of 90 over 20 once the orchestrator has
\* returned, and the write of 100 over 90 with the write of status
\* completed.
CheckpointsAsStated ==
    [][\A j \in JobIds :
          /\ Wrote(j, 10) =>
                \E w \in Workers :
                    /\ worker[w].job_id = j
                    /\ store[j].progress = 0
                    /\ worker[w].temp_files # {}
          /\ Wrote(j, 20) =>
                \E w \in Workers :
                    /\ worker[w].job_id = j
                    /\ store[j].progress = 10
                    /\ worker'[w].pc = "pipeline"
          /\ Wrote(j, 90) =>
                \E w \in Workers :
                    /\ worker[w].job_id = j
                    /\ store[j].progress = 20
                    /\ worker[w].result # NoneObj
          /\ Wrote(j, 100) =>
                /\ store[j].progress = 90
                /\ store[j].status # COMPLETED
                /\ store'[j].status = COMPLETED]_vars

\* C25, as the code has it: the write of 10 comes over the 0 of status
\* processing and before the preprocessing of the run starts; the write
\* of 20 over 10, once the preprocessing has finished and on entering the
\* orchestrator; the write of 90 over 20 once the orchestrator has
\* returned; and the write of 100 over 90 with the write of status
\* completed.
CheckpointsInOrder ==
    [][\A j \in JobIds :
          /\ Wrote(j, 10) =>
                \E w \in Workers :
                    /\ worker[w].job_id = j
                    /\ store[j].progress = 0
                    /\ store[j].status = PROCESSING
                    /\ worker[w].temp_files = {}
                    /\ ~worker[w].wrote_output
                    /\ worker'[w].pc = "preprocess"
          /\ Wrote(j, 20) =>
                \E w \in Workers :
                    /\ worker[w].job_id = j
                    /\ store[j].progress = 10
                    /\ worker[w].temp_files # {}
                    /\ worker[w].result = NoneObj
                    /\ worker'[w].pc = "pipeline"
          /\ Wrote(j, 90) =>
                \E w \in Workers :
                    /\ worker[w].job_id = j
                    /\ store[j].progress = 20
                    /\ worker[w].result # NoneObj
          /\ Wrote(j, 100) =>
                /\ store[j].progress = 90
                /\ store[j].status # COMPLETED
                /\ store'[j].status = COMPLETED]_vars

\* A run has ended without an exception and its record holds 100.
SucceededRunHolds100 ==
    \E w \in Workers :
        /\ worker[w].pc = "done"
        /\ worker[w].exc = NoneObj
        /\ store[worker[w].job_id] # NoneObj
        /\ store[worker[w].job_id].status = COMPLETED
        /\ store[worker[w].job_id].progress = 100

\* C26: an accepted job whose record is pending or processing reaches a
\* record that is completed or failed, with a fair queue and a fair
\* worker, time limits included.
AcceptedJobsTerminate ==
    \A j \in JobIds :
        (j \in accepted /\ store[j] # NoneObj
            /\ store[j].status \in {PENDING, PROCESSING})
        ~> (store[j] # NoneObj /\ store[j].status \in Terminal)

\* C27: in every record of the store, status is completed exactly when a
\* result is stored; completed comes with progress 100 and completed_at;
\* failed comes with an error, without a result and without completed_at;
\* pending and processing come without result, error and completed_at.
RecordFieldsMatchStatus ==
    \A j \in JobIds :
        store[j] # NoneObj =>
            /\ (store[j].status = COMPLETED) <=> (store[j].result # NoneObj)
            /\ store[j].status = COMPLETED =>
                   /\ store[j].progress = 100
                   /\ store[j].completed_at # None
            /\ store[j].status = FAILED =>
                   /\ store[j].error # None
                   /\ store[j].result = NoneObj
                   /\ store[j].completed_at = None
            /\ store[j].status \in {PENDING, PROCESSING} =>
                   /\ store[j].result = NoneObj
                   /\ store[j].error = None
                   /\ store[j].completed_at = None

\* C28: no call of get_model or get_pipeline returns None, whatever
\* unload calls other threads make meanwhile.
NeverReturnsAbsentEngine ==
    \A s \in Services : 0 \notin engine[s].returned

\* C29: no call of get_pipeline returns a pipeline that is not on its
\* device yet, is_loaded never answers True for one, and a call whose
\* initialisation raises leaves the pipeline not loaded.
PipelineNeverHalfInitialised ==
    /\ ~engine["DiarizationService"].half
    /\ ~engine["DiarizationService"].early
    /\ ~engine["DiarizationService"].stale

\* C30: in what the merger returns, for every list of words, those
\* without a speaker included, no two neighbouring segments have the same
\* speaker and every segment has at least one word.
NeighbourSegmentsDiffer ==
    Merged =>
        /\ \A k \in 1..(Len(output.value) - 1) :
               output.value[k].speaker # output.value[k + 1].speaker
        /\ \A k \in 1..Len(output.value) :
               Len(output.value[k].words.items) >= 1

=============================================================================
